---------------------------- MODULE Spec2Model ----------------------------
(***************************************************************************)
(* Model of the pymks_overview tutorial notebooks.                         *)
(*                                                                         *)
(* A notebook is a list of code cells run top to bottom in one kernel.     *)
(* The state is the kernel namespace (the names the cells bind), the heap  *)
(* of estimator objects the names refer to, and the position in the        *)
(* notebook.  One action models one code cell, or one statement of a loop  *)
(* body.                                                                   *)
(*                                                                         *)
(* The notebooks are exercises: parts of some statements are left blank    *)
(* (an empty argument list, an empty assignment target).  A blank is read  *)
(* as an elided expression; the statement is executed as the call the      *)
(* source writes, with the argument the surrounding markdown names.  A     *)
(* line that is absent or commented out is not executed.                   *)
(*                                                                         *)
(* The pymks / sklearn routines are not part of the repository; each is    *)
(* modelled by what the notebooks' own text states about it (the comment   *)
(* of each such definition says which text).                               *)
(***************************************************************************)
EXTENDS Integers, Sequences, FiniteSets, TLC

VARIABLES
    nb,                 \* the notebook being run
    pc,                 \* the next cell (or loop statement) to execute
    ii,                 \* loop variable of the time-marching loops
    n, m,               \* side lengths (0: name not bound yet)
    size,               \* the name `size` of the elasticity notebooks
    elastic_modulus,    \* tuple of elastic moduli (<<>>: not bound yet)
    n_samples,          \* number of calibration samples (0: not bound yet)
    split,              \* result of train_test_split
    parameters_to_tune, \* candidate n_states values of the grid search
    heap,               \* estimator objects, indexed by identity
    model,              \* the name `model`: index into heap (0: unbound)
    gs,                 \* the name `gs`: the GridSearchCV object
    regr,               \* the name `regr`: index into heap (0: unbound)
    phi0, phi_sim, phi_pred,  \* concentration fields
    response,           \* ch_sim.response
    lastCall,           \* the most recent fit/predict/score/resize_coeff call
    datagen,            \* the most recent data-generation call
    X, X_, corr,        \* microstructure, microstructure function, statistics
    X_auto              \* the autocorrelations, once computed

vars == <<nb, pc, ii, n, m, size, elastic_modulus, n_samples, split, parameters_to_tune,
          heap, model, gs, regr, phi0, phi_sim, phi_pred, response, lastCall,
          datagen, X, X_, corr, X_auto>>

---------------------------------------------------------------------------
(* Bounds *)

\* number of distinct outcomes a random draw / shuffle can take in the model
NumDraws == 2

\* largest side length n of the calibration data in the API specification
MaxSide == 2

\* the microstructures of the statistics specification are GridRows x GridCols
GridRows == 2
GridCols == 2

\* a cell value is one of 0/Levels, 1/Levels, ..., Levels/Levels
Levels == 2

\* at most MaxShared cells of a microstructure hold a mixture of both phases
MaxShared == 1

---------------------------------------------------------------------------
(* Values *)

NoArray == [shape |-> <<>>, draw |-> 0, sim |-> 0, pred |-> 0]

NoCall == [obj |-> 0, op |-> "none", shape |-> <<>>,
           fittedBefore |-> FALSE, coefBefore |-> <<>>, ok |-> TRUE]

NoGs == [base |-> 0, fitted |-> FALSE, best |-> 0]

NoSplit == [test_size |-> 0, train |-> {}, test |-> {}]

NoDatagen == [fn |-> "none", size |-> <<>>]

\* spatial shape of a batch of fields: X.shape[1:]
Spatial(shape) == Tail(shape)

SeqMax(s) == CHOOSE x \in {s[i] : i \in 1..Len(s)} :
                 \A y \in {s[i] : i \in 1..Len(s)} : y <= x

SeqMin(s) == CHOOSE x \in {s[i] : i \in 1..Len(s)} :
                 \A y \in {s[i] : i \in 1..Len(s)} : x <= y

---------------------------------------------------------------------------
(* Library routines, as the notebooks describe them *)

\* np.arange(a, b): the integers a, a+1, ..., b-1
arange(a, b) == a .. (b - 1)

\* an estimator object right after construction
NewEstimator(cls, n_states, domain) ==
    [cls |-> cls, n_states |-> n_states, domain |-> domain,
     fitted |-> FALSE, coef |-> <<>>]

\* model.fit(X, y): calibrates the influence coefficients on data whose
\* spatial shape is `shape`
MKS_fit(o, shape) == [o EXCEPT !.fitted = TRUE, !.coef = shape]

\* variant of MKS_resize_coeff: the coefficients keep their shape
MKS_resize_coeff_Keep(o, shape) == o

\* model.resize_coeff(shape): "The influence coefficients that have already
\* been calibrated need to be resized to match the shape of the new larger
\* microstructure ... by passing the shape of the new larger microstructure
\* into the resize_coeff method."
MKS_resize_coeff(o, shape) == [o EXCEPT !.coef = shape]

\* model.predict(X) works iff the model is calibrated and the spatial shape of
\* X is the shape of the coefficients: "Because the coefficients have been
\* resized, they will no longer work for our original n by n sized
\* microstructures ..., but they can now be used on the m by m
\* microstructures."
PredictWorks(o, shape) == o.fitted /\ o.coef = shape

\* the record of a call of method op on heap object id with data of spatial
\* shape `shape`, taken before the call changes the object
CallOf(h, id, op, shape, ok) ==
    [obj |-> id, op |-> op, shape |-> shape,
     fittedBefore |-> h[id].fitted, coefBefore |-> h[id].coef, ok |-> ok]

\* ceil(a / b) for positive b
CeilDiv(a, b) == (a + b - 1) \div b

\* sklearn train_test_split(X, y, test_size=pct/100, random_state=...):
\* n_test = ceil(test_size * n_samples) samples go to the test set and the
\* others to the training set; `off` stands for the outcome of the shuffle.
train_test_split(nsamp, pct, off) ==
    LET n_test == CeilDiv(nsamp * pct, 100)
        test   == {(off + i) % nsamp : i \in 0 .. (n_test - 1)}
    IN  [test_size |-> pct, train |-> (0 .. (nsamp - 1)) \ test, test |-> test]

\* a field of the given shape drawn by np.random.normal
RandomField(shape, d) == [shape |-> shape, draw |-> d, sim |-> 0, pred |-> 0]

\* phi0.copy(): a new array with the shape and the elements of the original
Copy(a) == a

\* ch_sim.run(phi): the response is phi advanced by one time step
CH_run(phi) == [phi EXCEPT !.sim = @ + 1]

\* the array model.predict(phi) returns when it works
MKS_predict(phi) == [phi EXCEPT !.pred = @ + 1]

---------------------------------------------------------------------------
(* Initial state: a fresh kernel for one of the notebooks *)

Notebooks == {"cahn_hilliard", "elasticity_2phase", "elasticity_3phase",
              "homogenization", "python_intro"}

FreshNames ==
    /\ ii = 0 /\ n = 0 /\ m = 0 /\ size = <<>>
    /\ elastic_modulus = <<>> /\ n_samples = 0
    /\ split = NoSplit /\ parameters_to_tune = {}
    /\ heap = <<>> /\ model = 0 /\ gs = NoGs /\ regr = 0
    /\ phi0 = NoArray /\ phi_sim = NoArray /\ phi_pred = NoArray
    /\ response = NoArray
    /\ lastCall = NoCall /\ datagen = NoDatagen

NoCorr == [kind |-> "none", val |-> <<>>]

FreshKernel ==
    /\ FreshNames
    /\ X = <<>> /\ X_ = <<>> /\ corr = NoCorr /\ X_auto = <<>>

Init ==
    /\ nb \in Notebooks
    /\ pc = "start"
    /\ FreshKernel

statsVars == <<X, X_, corr, X_auto>>
chOther   == <<size, elastic_modulus, regr, statsVars>>
elastVars == <<size, elastic_modulus>>
fieldVars == <<phi0, phi_sim, phi_pred, response>>
estVars   == <<heap, model, gs, lastCall>>
splitVars == <<n_samples, split, parameters_to_tune>>

\* an exception aborts the cell that raised it; the run goes on with the cell
\* after it
Abort(next) == pc' = next

---------------------------------------------------------------------------
(* cahn_hilliard.ipynb *)

\* program constants of the notebook
time_steps == 10
large_steps == 1000

\* n = 41; n_samples = 400; ... = make_cahn_hilliard(n_samples, size=(n, n))
CH_MakeData ==
    /\ nb = "cahn_hilliard" /\ pc = "start"
    /\ n' = 41
    /\ n_samples' = 400
    /\ datagen' = [fn |-> "make_cahn_hilliard", size |-> <<41, 41>>]
    /\ pc' = "ch_split"
    /\ UNCHANGED <<nb, ii, m, split, parameters_to_tune>>
    /\ UNCHANGED <<chOther, fieldVars, estVars>>

\* ... = train_test_split(X.reshape(split_shape), y.reshape(split_shape),
\*                        test_size=0.5, random_state=3)
CH_Split ==
    /\ nb = "cahn_hilliard" /\ pc = "ch_split"
    /\ \E off \in 0 .. (NumDraws - 1) :
          split' = train_test_split(n_samples, 50, off)
    /\ pc' = "ch_grid"
    /\ UNCHANGED <<nb, ii, n, m, n_samples, parameters_to_tune, datagen>>
    /\ UNCHANGED <<chOther, fieldVars, estVars>>

\* parameters_to_tune = {'n_states': np.arange(2, 11)}
\* prim_basis = PrimitiveBasis(2, [-1, 1]); model = MKSLocalizationModel(prim_basis)
\* gs = GridSearchCV(model, parameters_to_tune, cv=5, fit_params={'size': (n, n)})
\* gs.fit(, )
\* The search fits clones of `model`, one per candidate, and keeps the best
\* one as best_estimator_; which candidate scores best is not decided here.
CH_GridSearch ==
    /\ nb = "cahn_hilliard" /\ pc = "ch_grid"
    /\ parameters_to_tune' = arange(2, 11)
    /\ \E best \in parameters_to_tune' :
         LET base  == NewEstimator("MKSLocalizationModel", 2, <<-1, 1>>)
             clone == NewEstimator("MKSLocalizationModel", best, <<-1, 1>>)
             h1    == heap \o <<base, clone>>
         IN  /\ heap' = [h1 EXCEPT ![Len(h1)] = MKS_fit(clone, <<n, n>>)]
             /\ model' = Len(heap) + 1
             /\ gs' = [base |-> Len(heap) + 1, fitted |-> TRUE,
                       best |-> Len(h1)]
             /\ lastCall' = CallOf(h1, Len(h1), "fit", <<n, n>>, TRUE)
    /\ pc' = "ch_gs_score"
    /\ UNCHANGED <<nb, ii, n, m, n_samples, split, datagen>>
    /\ UNCHANGED <<chOther, fieldVars>>

\* print(gs.best_estimator_); print(gs.score(, ))
CH_GsScore ==
    /\ nb = "cahn_hilliard" /\ pc = "ch_gs_score"
    /\ lastCall' = CallOf(heap, gs.best, "score", <<n, n>>, heap[gs.best].fitted)
    /\ pc' = "ch_calibrate"
    /\ UNCHANGED <<nb, ii, n, m, n_samples, split, parameters_to_tune, datagen>>
    /\ UNCHANGED <<heap, model, gs>>
    /\ UNCHANGED <<chOther, fieldVars>>

\* variant of CH_Calibrate: the 6-state model is built but fit is not called
CH_Calibrate_NoFit ==
    /\ nb = "cahn_hilliard" /\ pc = "ch_calibrate"
    /\ heap' = Append(heap, NewEstimator("MKSLocalizationModel", 6, <<-1, 1>>))
    /\ model' = Len(heap) + 1
    /\ lastCall' = lastCall
    /\ pc' = "ch_fields1"
    /\ UNCHANGED <<nb, ii, n, m, n_samples, split, parameters_to_tune, datagen, gs>>
    /\ UNCHANGED <<chOther, fieldVars>>

\* variant of CH_Calibrate: no new model is built, the model handed to the
\* grid search is fitted instead
CH_Calibrate_Reuse ==
    /\ nb = "cahn_hilliard" /\ pc = "ch_calibrate"
    /\ heap' = [heap EXCEPT ![model] = MKS_fit(@, <<n, n>>)]
    /\ model' = model
    /\ lastCall' = CallOf(heap, model, "fit", <<n, n>>, TRUE)
    /\ pc' = "ch_fields1"
    /\ UNCHANGED <<nb, ii, n, m, n_samples, split, parameters_to_tune, datagen, gs>>
    /\ UNCHANGED <<chOther, fieldVars>>

\* model = MKSLocalizationModel(basis=PrimitiveBasis(6, [-1, 1]))
\* model.fit(,)
CH_Calibrate ==
    /\ nb = "cahn_hilliard" /\ pc = "ch_calibrate"
    /\ LET o  == NewEstimator("MKSLocalizationModel", 6, <<-1, 1>>)
           h1 == Append(heap, o)
       IN  /\ heap' = [h1 EXCEPT ![Len(h1)] = MKS_fit(o, <<n, n>>)]
           /\ model' = Len(h1)
           /\ lastCall' = CallOf(h1, Len(h1), "fit", <<n, n>>, TRUE)
    /\ pc' = "ch_fields1"
    /\ UNCHANGED <<nb, ii, n, m, n_samples, split, parameters_to_tune, datagen, gs>>
    /\ UNCHANGED <<chOther, fieldVars>>

\* phi0 = np.random.normal(0, 1e-9, (1, n, n)); ch_sim = CahnHilliardSimulation(dt=dt)
\* phi_sim = phi0.copy(); phi_pred = phi0.copy()
CH_InitFields1 ==
    /\ nb = "cahn_hilliard" /\ pc = "ch_fields1"
    /\ \E d \in 1 .. NumDraws :
         LET f == RandomField(<<1, n, n>>, d)
         IN  /\ phi0' = f
             /\ phi_sim' = Copy(f)
             /\ phi_pred' = Copy(f)
    /\ ii' = 0
    /\ pc' = "ch_loop1_head"
    /\ UNCHANGED <<nb, n, m, n_samples, split, parameters_to_tune, datagen, response>>
    /\ UNCHANGED <<chOther, estVars>>

\* variant of CH_InitFields2: phi_pred is not reset to a copy of the new phi0
CH_InitFields2_StalePred ==
    /\ nb = "cahn_hilliard" /\ pc = "ch_fields2"
    /\ m' = 3 * n
    /\ \E d \in 1 .. NumDraws :
         LET f == RandomField(<<1, 3 * n, 3 * n>>, d)
         IN  /\ phi0' = f
             /\ phi_sim' = Copy(f)
             /\ phi_pred' = phi_pred
    /\ ii' = 0
    /\ pc' = "ch_loop2_head"
    /\ UNCHANGED <<nb, n, n_samples, split, parameters_to_tune, datagen, response>>
    /\ UNCHANGED <<chOther, estVars>>

\* m = 3 * n; phi0 = np.random.normal(0, 1e-9, (1, m, m))
\* phi_sim = phi0.copy(); phi_pred = phi0.copy()
CH_InitFields2 ==
    /\ nb = "cahn_hilliard" /\ pc = "ch_fields2"
    /\ m' = 3 * n
    /\ \E d \in 1 .. NumDraws :
         LET f == RandomField(<<1, 3 * n, 3 * n>>, d)
         IN  /\ phi0' = f
             /\ phi_sim' = Copy(f)
             /\ phi_pred' = Copy(f)
    /\ ii' = 0
    /\ pc' = "ch_loop2_head"
    /\ UNCHANGED <<nb, n, n_samples, split, parameters_to_tune, datagen, response>>
    /\ UNCHANGED <<chOther, estVars>>

\* positions of the two time-marching loops
LoopPc(L, stmt) ==
    CASE L = 1 /\ stmt = "head"    -> "ch_loop1_head"
      [] L = 1 /\ stmt = "run"     -> "ch_loop1_run"
      [] L = 1 /\ stmt = "assign"  -> "ch_loop1_assign"
      [] L = 1 /\ stmt = "predict" -> "ch_loop1_predict"
      [] L = 1 /\ stmt = "exit"    -> "ch_fields2"
      [] L = 2 /\ stmt = "head"    -> "ch_loop2_head"
      [] L = 2 /\ stmt = "run"     -> "ch_loop2_run"
      [] L = 2 /\ stmt = "assign"  -> "ch_loop2_assign"
      [] L = 2 /\ stmt = "predict" -> "ch_loop2_predict"
      [] L = 2 /\ stmt = "exit"    -> "done"

\* for ii in range(time_steps):  /  for ii in range(1000):
LoopSteps(L) == IF L = 1 THEN time_steps ELSE large_steps

\* ii counts the iterations begun so far
CH_LoopHead(L) ==
    /\ nb = "cahn_hilliard" /\ pc = LoopPc(L, "head")
    /\ IF ii < LoopSteps(L)
         THEN pc' = LoopPc(L, "run") /\ ii' = ii + 1
         ELSE pc' = LoopPc(L, "exit") /\ ii' = ii
    /\ UNCHANGED <<nb, n, m, n_samples, split, parameters_to_tune, datagen>>
    /\ UNCHANGED <<chOther, fieldVars, estVars>>

\*     ch_sim.run(phi_sim)
CH_Run(L) ==
    /\ nb = "cahn_hilliard" /\ pc = LoopPc(L, "run")
    /\ response' = CH_run(phi_sim)
    /\ pc' = LoopPc(L, "assign")
    /\ UNCHANGED <<nb, ii, n, m, n_samples, split, parameters_to_tune, datagen>>
    /\ UNCHANGED <<phi0, phi_sim, phi_pred>>
    /\ UNCHANGED <<chOther, estVars>>

\*     phi_sim = ch_sim.response
CH_Assign(L) ==
    /\ nb = "cahn_hilliard" /\ pc = LoopPc(L, "assign")
    /\ phi_sim' = response
    /\ pc' = LoopPc(L, "predict")
    /\ UNCHANGED <<nb, ii, n, m, n_samples, split, parameters_to_tune, datagen>>
    /\ UNCHANGED <<phi0, phi_pred, response>>
    /\ UNCHANGED <<chOther, estVars>>

\* variant of CH_Predict: the model is handed the field of the simulation
CH_Predict_OnSim(L) ==
    /\ nb = "cahn_hilliard" /\ pc = LoopPc(L, "predict")
    /\ LET works == PredictWorks(heap[model], Spatial(phi_sim.shape))
       IN  /\ lastCall' = CallOf(heap, model, "predict",
                                 Spatial(phi_sim.shape), works)
           /\ IF works
                THEN phi_pred' = MKS_predict(phi_sim) /\ pc' = LoopPc(L, "head")
                ELSE phi_pred' = phi_pred /\ Abort(LoopPc(L, "exit"))
    /\ UNCHANGED <<nb, ii, n, m, n_samples, split, parameters_to_tune, datagen>>
    /\ UNCHANGED <<phi0, phi_sim, response, heap, model, gs>>
    /\ UNCHANGED <<chOther>>

\*     phi_pred = model.predict(phi_pred)
CH_Predict(L) ==
    /\ nb = "cahn_hilliard" /\ pc = LoopPc(L, "predict")
    /\ LET works == PredictWorks(heap[model], Spatial(phi_pred.shape))
       IN  /\ lastCall' = CallOf(heap, model, "predict",
                                 Spatial(phi_pred.shape), works)
           /\ IF works
                THEN phi_pred' = MKS_predict(phi_pred) /\ pc' = LoopPc(L, "head")
                ELSE phi_pred' = phi_pred /\ Abort(LoopPc(L, "exit"))
    /\ UNCHANGED <<nb, ii, n, m, n_samples, split, parameters_to_tune, datagen>>
    /\ UNCHANGED <<phi0, phi_sim, response, heap, model, gs>>
    /\ UNCHANGED <<chOther>>

CahnHilliard ==
    \/ CH_MakeData
    \/ CH_Split
    \/ CH_GridSearch
    \/ CH_GsScore
    \/ CH_Calibrate
    \/ CH_InitFields1
    \/ CH_InitFields2
    \/ \E L \in {1, 2} : CH_LoopHead(L)
    \/ \E L \in {1, 2} : CH_Run(L)
    \/ \E L \in {1, 2} : CH_Assign(L)
    \/ \E L \in {1, 2} : CH_Predict(L)

---------------------------------------------------------------------------
(* elasticity_2D.ipynb, first notebook: two phases *)

chVars == <<ii, m, splitVars, fieldVars>>

\* n = 21; X_delta = make_delta_microstructures(n_phases=2, size=(n, n))
E2_Delta ==
    /\ nb = "elasticity_2phase" /\ pc = "start"
    /\ n' = 21
    /\ datagen' = [fn |-> "make_delta_microstructures", size |-> <<21, 21>>]
    /\ pc' = "e2_calibration_data"
    /\ UNCHANGED <<nb, chVars, elastVars, estVars, regr, statsVars>>

\* elastic_modulus = (100, 120); size = (n, n)
\* ... = make_elastic_FE_strain_delta(elastic_modulus=elastic_modulus, ..., size=size, ...)
E2_CalibrationData ==
    /\ nb = "elasticity_2phase" /\ pc = "e2_calibration_data"
    /\ elastic_modulus' = <<100, 120>>
    /\ size' = <<n, n>>
    /\ datagen' = [fn |-> "make_elastic_FE_strain_delta", size |-> size']
    /\ pc' = "e2_model"
    /\ UNCHANGED <<nb, n, chVars, estVars, regr, statsVars>>

\* ... = PrimitiveBasis(n_states=2, domain=[0, 1]); model = MKSLocalizationModel(basis=)
E2_Model ==
    /\ nb = "elasticity_2phase" /\ pc = "e2_model"
    /\ heap' = Append(heap, NewEstimator("MKSLocalizationModel", 2, <<0, 1>>))
    /\ model' = Len(heap) + 1
    /\ pc' = "e2_fit"
    /\ UNCHANGED <<nb, n, chVars, elastVars, gs, lastCall, datagen, regr, statsVars>>

\* model.fit()    "pass the delta microstructures and their strain fields into
\* the fit method": the data generated last
E2_Fit ==
    /\ nb = "elasticity_2phase" /\ pc = "e2_fit"
    /\ lastCall' = CallOf(heap, model, "fit", datagen.size, TRUE)
    /\ heap' = [heap EXCEPT ![model] = MKS_fit(@, datagen.size)]
    /\ pc' = "e2_random"
    /\ UNCHANGED <<nb, n, chVars, elastVars, model, gs, datagen, regr, statsVars>>

\* ... = make_elastic_FE_strain_random(n_samples=1, ..., size=size, ...)
E2_Random ==
    /\ nb = "elasticity_2phase" /\ pc = "e2_random"
    /\ datagen' = [fn |-> "make_elastic_FE_strain_random", size |-> size]
    /\ pc' = "e2_predict"
    /\ UNCHANGED <<nb, n, chVars, elastVars, estVars, regr, statsVars>>

\* strain_predict = model.predict()    "just pass the same microstructure to
\* the predict method"
\* strain_predict = model.predict(X)   (after the coefficients are resized)
E2_Predict(here, next) ==
    /\ nb = "elasticity_2phase" /\ pc = here
    /\ lastCall' = CallOf(heap, model, "predict", datagen.size,
                          PredictWorks(heap[model], datagen.size))
    /\ pc' = next
    /\ UNCHANGED <<nb, n, chVars, elastVars, heap, model, gs, datagen, regr, statsVars>>

\* variant of E2_Big: the name size is not rebound
E2_Big_NoRebind ==
    /\ nb = "elasticity_2phase" /\ pc = "e2_big"
    /\ m' = 3 * n
    /\ size' = size
    /\ datagen' = [fn |-> "make_elastic_FE_strain_random", size |-> size']
    /\ pc' = "e2_resize"
    /\ UNCHANGED <<nb, n, ii, splitVars, fieldVars, elastic_modulus, estVars, regr, statsVars>>

\* m = 3 * n; size = (m, m)
\* ... = make_elastic_FE_strain_random(n_samples=1, ..., size=size, ...)
E2_Big ==
    /\ nb = "elasticity_2phase" /\ pc = "e2_big"
    /\ m' = 3 * n
    /\ size' = <<m', m'>>
    /\ datagen' = [fn |-> "make_elastic_FE_strain_random", size |-> size']
    /\ pc' = "e2_resize"
    /\ UNCHANGED <<nb, n, ii, splitVars, fieldVars, elastic_modulus, estVars, regr, statsVars>>

\* model.resize_coeff()    "passing the shape of the new larger microstructure
\* into the resize_coeff method"
E2_Resize ==
    /\ nb = "elasticity_2phase" /\ pc = "e2_resize"
    /\ lastCall' = CallOf(heap, model, "resize_coeff", datagen.size, TRUE)
    /\ heap' = [heap EXCEPT ![model] = MKS_resize_coeff(@, datagen.size)]
    /\ pc' = "e2_predict_big"
    /\ UNCHANGED <<nb, n, chVars, elastVars, model, gs, datagen, regr, statsVars>>

Elasticity2 ==
    \/ E2_Delta
    \/ E2_CalibrationData
    \/ E2_Model
    \/ E2_Fit
    \/ E2_Random
    \/ E2_Predict("e2_predict", "e2_big")
    \/ E2_Big
    \/ E2_Resize
    \/ E2_Predict("e2_predict_big", "done")

---------------------------------------------------------------------------
(* elasticity_2D.ipynb, second notebook: three phases.  The cells that are *)
(* to construct, fit, resize and apply the model are empty.                *)

\* n = 21; n_phases = 3
E3_Init ==
    /\ nb = "elasticity_3phase" /\ pc = "start"
    /\ n' = 21
    /\ pc' = "e3_calibration_data"
    /\ UNCHANGED <<nb, chVars, elastVars, estVars, datagen, regr, statsVars>>

\* elastic_modulus = (80, 100, 120); size = (n, n)
\* ... = make_elastic_FE_strain_delta(elastic_modulus=elastic_modulus, ..., size=size, ...)
E3_CalibrationData ==
    /\ nb = "elasticity_3phase" /\ pc = "e3_calibration_data"
    /\ elastic_modulus' = <<80, 100, 120>>
    /\ size' = <<n, n>>
    /\ datagen' = [fn |-> "make_elastic_FE_strain_delta", size |-> size']
    /\ pc' = "e3_big"
    /\ UNCHANGED <<nb, n, chVars, estVars, regr, statsVars>>

\* m = 3 * n; size = (m, m)
\* ... = make_elastic_FE_strain_random(n_samples=1, ..., size=size, ...)
E3_Big ==
    /\ nb = "elasticity_3phase" /\ pc = "e3_big"
    /\ m' = 3 * n
    /\ size' = <<m', m'>>
    /\ datagen' = [fn |-> "make_elastic_FE_strain_random", size |-> size']
    /\ pc' = "done"
    /\ UNCHANGED <<nb, n, ii, splitVars, fieldVars, elastic_modulus, estVars, regr, statsVars>>

Elasticity3 ==
    \/ E3_Init
    \/ E3_CalibrationData
    \/ E3_Big

---------------------------------------------------------------------------
(* the homogenization notebook (src/unnamed/part_000) *)

\* elastic_modulus = (410, 200); size = (21, 21); X, y = <blank>
\* (make_elastic_stress_random is the generator the cell imports)
H_Data ==
    /\ nb = "homogenization" /\ pc = "start"
    /\ elastic_modulus' = <<410, 200>>
    /\ size' = <<21, 21>>
    /\ datagen' = [fn |-> "make_elastic_stress_random", size |-> size']
    /\ pc' = "h_model"
    /\ UNCHANGED <<nb, n, chVars, estVars, regr, statsVars>>

\* prim_basis = <blank>; model = <blank>
\* (MKSHomogenizationModel is the class the cell imports)
\* model.n_components = 40; model.fit      (a reference to the method, no call)
H_Model ==
    /\ nb = "homogenization" /\ pc = "h_model"
    /\ heap' = Append(heap, NewEstimator("MKSHomogenizationModel", 2, <<0, 1>>))
    /\ model' = Len(heap) + 1
    /\ pc' = "h_grid"
    /\ UNCHANGED <<nb, n, chVars, elastVars, gs, lastCall, datagen, regr, statsVars>>

\* gs = <blank>
\* The cells after it read gs.grid_scores_ and gs.best_estimator_, which a
\* GridSearchCV has once its fit has run: the search has fitted clones of
\* `model` and keeps the best as best_estimator_.
H_GridSearch ==
    /\ nb = "homogenization" /\ pc = "h_grid"
    /\ LET clone == NewEstimator("MKSHomogenizationModel", 2, <<0, 1>>)
           h1    == Append(heap, clone)
       IN  /\ heap' = [h1 EXCEPT ![Len(h1)] = MKS_fit(clone, datagen.size)]
           /\ gs' = [base |-> model, fitted |-> TRUE, best |-> Len(h1)]
           /\ lastCall' = CallOf(h1, Len(h1), "fit", datagen.size, TRUE)
    /\ pc' = "h_gs_score"
    /\ UNCHANGED <<nb, n, chVars, elastVars, model, datagen, regr, statsVars>>

\* print('R-squared Value'), (gs.score(X_test, y_test))
H_GsScore ==
    /\ nb = "homogenization" /\ pc = "h_gs_score"
    /\ lastCall' = CallOf(heap, gs.best, "score", datagen.size,
                          heap[gs.best].fitted)
    /\ pc' = "h_refit"
    /\ UNCHANGED <<nb, n, chVars, elastVars, heap, model, gs, datagen, regr, statsVars>>

\* model = gs.best_estimator_; model.fit(X, y, periodic_axes=[0, 1])
H_Refit ==
    /\ nb = "homogenization" /\ pc = "h_refit"
    /\ model' = gs.best
    /\ lastCall' = CallOf(heap, gs.best, "fit", datagen.size, TRUE)
    /\ heap' = [heap EXCEPT ![gs.best] = MKS_fit(@, datagen.size)]
    /\ pc' = "h_score"
    /\ UNCHANGED <<nb, n, chVars, elastVars, gs, datagen, regr, statsVars>>

\* print('R-squared'), (model.score(X_new, y_new, periodic_axes=[0, 1]))
H_Score ==
    /\ nb = "homogenization" /\ pc = "h_score"
    /\ lastCall' = CallOf(heap, model, "score", datagen.size, heap[model].fitted)
    /\ pc' = "done"
    /\ UNCHANGED <<nb, n, chVars, elastVars, heap, model, gs, datagen, regr, statsVars>>

Homogenization ==
    \/ H_Data
    \/ H_Model
    \/ H_GridSearch
    \/ H_GsScore
    \/ H_Refit
    \/ H_Score

---------------------------------------------------------------------------
(* python_intro-checkpoint.ipynb: the scikit-learn cell *)

\* regr = linear_model.LinearRegression()
\* # regr.fit(diabetes_X_train, diabetes_y_train)
\* # y = regr.predict(diabetes_X_test)
\* print('Coefficients: \n', regr.coef_)
\* ...
\* print('Variance score: %.2f' % regr.score(diabetes_X_test, diabetes_y_test))
\* fit and predict are commented out.  coef_ is an attribute fit creates, so
\* reading it on the new object raises and the cell is aborted before the
\* statement that calls score.
P_Regression ==
    /\ nb = "python_intro" /\ pc = "start"
    /\ LET o  == NewEstimator("LinearRegression", 0, <<>>)
           h1 == Append(heap, o)
       IN  /\ heap' = h1
           /\ regr' = Len(h1)
           /\ IF o.fitted
                THEN lastCall' = CallOf(h1, Len(h1), "score", <<>>, TRUE)
                ELSE lastCall' = lastCall
    /\ pc' = "done"
    /\ UNCHANGED <<nb, n, chVars, elastVars, model, gs, datagen, statsVars>>

PythonIntro == P_Regression

Next ==
    \/ CahnHilliard
    \/ Elasticity2
    \/ Elasticity3
    \/ Homogenization
    \/ PythonIntro

Spec == Init /\ [][Next]_vars

---------------------------------------------------------------------------
(* The calibrate / resize / predict interface of MKSLocalizationModel, driven *)
(* by every sequence of calls                                                *)

\* side lengths of the microstructures handed to predict and resize_coeff
Sides == 1 .. (3 * MaxSide)

InitAPI ==
    /\ nb = "api" /\ pc = "api"
    /\ ii = 0 /\ n = 0 /\ m = 0 /\ size = <<>>
    /\ elastic_modulus = <<>> /\ n_samples = 0
    /\ split = NoSplit /\ parameters_to_tune = {}
    /\ heap = <<NewEstimator("MKSLocalizationModel", 2, <<0, 1>>)>>
    /\ model = 1 /\ gs = NoGs /\ regr = 0
    /\ phi0 = NoArray /\ phi_sim = NoArray /\ phi_pred = NoArray
    /\ response = NoArray
    /\ lastCall = NoCall /\ datagen = NoDatagen
    /\ X = <<>> /\ X_ = <<>> /\ corr = NoCorr /\ X_auto = <<>>

\* model.fit on n x n calibration data
API_Fit ==
    /\ nb = "api"
    /\ \E k \in 1 .. MaxSide :
         /\ n' = k /\ m' = 0
         /\ lastCall' = CallOf(heap, model, "fit", <<k, k>>, TRUE)
         /\ heap' = [heap EXCEPT ![model] = MKS_fit(@, <<k, k>>)]
    /\ UNCHANGED <<nb, pc, ii, splitVars, fieldVars, elastVars, model, gs,
                   datagen, regr, statsVars>>

\* model.resize_coeff with the shape of a larger m x m microstructure
API_Resize ==
    /\ nb = "api"
    /\ heap[model].fitted
    /\ \E j \in Sides :
         /\ <<j, j>> # heap[model].coef
         /\ j > heap[model].coef[1]
         /\ m' = j
         /\ lastCall' = CallOf(heap, model, "resize_coeff", <<j, j>>, TRUE)
         /\ heap' = [heap EXCEPT ![model] = MKS_resize_coeff(@, <<j, j>>)]
    /\ UNCHANGED <<nb, pc, ii, n, splitVars, fieldVars, elastVars, model, gs,
                   datagen, regr, statsVars>>

\* model.predict on a k x k microstructure
API_Predict ==
    /\ nb = "api"
    /\ \E k \in Sides :
         lastCall' = CallOf(heap, model, "predict", <<k, k>>,
                            PredictWorks(heap[model], <<k, k>>))
    /\ UNCHANGED <<nb, pc, ii, n, m, splitVars, fieldVars, elastVars, heap,
                   model, gs, datagen, regr, statsVars>>

NextAPI ==
    \/ API_Fit
    \/ API_Resize
    \/ API_Predict

SpecAPI == InitAPI /\ [][NextAPI]_vars

---------------------------------------------------------------------------
(* Properties of the notebooks *)

\* "as long as the ratio between the elastic moduli (also known as the
\* contrast) is less than 1.5": max / min < 3 / 2
ContrastLow(em) == 2 * SeqMax(em) < 3 * SeqMin(em)

\* C2: in the Cahn-Hilliard notebook the coefficients have been resized to
\* m x m before model.predict is called on the (1, m, m) field: every predict
\* call on an m x m field finds coefficients of shape (m, m).
C2_ResizedBeforeLargePredict ==
    (nb = "cahn_hilliard" /\ m # 0 /\ lastCall.op = "predict"
        /\ lastCall.shape = <<m, m>>)
    => lastCall.coefBefore = <<m, m>>

C4_SameInitialConcentration ==
    /\ (nb = "cahn_hilliard" /\ pc = "ch_loop1_head" /\ ii = 0)
         => (phi_sim = phi0 /\ phi_pred = phi0 /\ phi0.shape = <<1, n, n>>)
    /\ (nb = "cahn_hilliard" /\ pc = "ch_loop2_head" /\ ii = 0)
         => (phi_sim = phi0 /\ phi_pred = phi0 /\ phi0.shape = <<1, m, m>>)

\* C4 witness: the second loop is about to start, after the first loop has
\* changed both fields, with a phi0 of the larger shape.
C4_Witness ==
    /\ nb = "cahn_hilliard" /\ pc = "ch_loop2_head" /\ ii = 0
    /\ m = 3 * n /\ phi0.shape = <<1, m, m>>
    /\ phi_sim = phi0 /\ phi_pred = phi0
    /\ lastCall.op = "predict" /\ response.sim = time_steps

\* C5: in each elasticity notebook the contrast of the elastic moduli handed
\* to the data generators is less than 1.5.
C5_ContrastBelowLimit ==
    (nb \in {"elasticity_2phase", "elasticity_3phase"} /\ elastic_modulus # <<>>)
    => ContrastLow(elastic_modulus)

\* C6: the split uses test_size 0.2: of the 400 samples 320 are in the
\* training set and 80 in the test set, the two sets are disjoint and together
\* hold every sample.
C6_Split80_20 ==
    (nb = "cahn_hilliard" /\ split # NoSplit)
    => /\ split.test_size = 20
       /\ Cardinality(split.train) = 320
       /\ Cardinality(split.test) = 80
       /\ split.train \cap split.test = {}
       /\ split.train \cup split.test = 0 .. (n_samples - 1)

\* C7: the candidate n_states values handed to the grid search are exactly
\* 2, ..., 20.
C7_CandidatesUpTo20 ==
    (nb = "cahn_hilliard" /\ parameters_to_tune # {})
    => parameters_to_tune = 2 .. 20

\* C8: every predict call of the time-marching loops is made on the object the
\* name `model` refers to, a fitted MKSLocalizationModel with 6 local states on
\* [-1, 1]; it is neither the model handed to the grid search nor the best
\* estimator of the search.
C8_SixStateModel ==
    (nb = "cahn_hilliard" /\ lastCall.op = "predict")
    => /\ lastCall.obj = model
       /\ heap[model].cls = "MKSLocalizationModel"
       /\ heap[model].n_states = 6
       /\ heap[model].domain = <<-1, 1>>
       /\ lastCall.fittedBefore
       /\ model \notin {gs.base, gs.best}
       /\ heap[gs.base].n_states = 2

\* C8 witness: predict has been called in the second loop while the grid
\* search had picked another number of states than 6.
C8_Witness ==
    /\ nb = "cahn_hilliard" /\ lastCall.op = "predict"
    /\ lastCall.shape = <<3 * n, 3 * n>>
    /\ heap[lastCall.obj].n_states = 6
    /\ heap[gs.best].n_states # 6

---------------------------------------------------------------------------
(* checker_board.ipynb: 2-point statistics of a microstructure *)

Cells == (0 .. (GridRows - 1)) \X (0 .. (GridCols - 1))

\* the vectors r; with periodic axes (0, 1) every offset wraps around
Offsets == Cells

\* number of spatial bins S
NumCells == GridRows * GridCols

\* local states of PrimitiveBasis(n_states=2): 0 (black) and 1 (white)
States == {0, 1}

\* a rational number num / den
Frac(num, den) == [num |-> num, den |-> den]

FracEq(a, b) == a.num * b.den = b.num * a.den

RECURSIVE SumOver(_, _)
SumOver(f, dom) ==
    IF dom = {} THEN 0
    ELSE LET s == CHOOSE c \in dom : TRUE
         IN  f[s] + SumOver(f, dom \ {s})

\* s + r on the periodic grid
Shift(s, r) == <<(s[1] + r[1]) % GridRows, (s[2] + r[2]) % GridCols>>

\* PrimitiveBasis(n_states=2, domain [0, 1]).discretize(X): the microstructure
\* function m[s, l], in units of 1/Levels; a cell of value 0 is all state 0, a
\* cell of value 1 is all state 1, a value between is shared linearly.
discretize(x) ==
    [s \in Cells |-> [l \in States |-> IF l = 0 THEN Levels - x[s] ELSE x[s]]]

\* variant of TwoPoint: the axes are not periodic, a pair whose second bin
\* falls off the grid is left out
TwoPoint_NonPeriodic(mf, l, lp, r) ==
    Frac(SumOver([s \in Cells |->
                    IF s[1] + r[1] < GridRows /\ s[2] + r[2] < GridCols
                      THEN mf[s][l] * mf[Shift(s, r)][lp]
                      ELSE 0], Cells),
         NumCells * Levels * Levels)

\* f[r | l, l'] = (1/S) sum_s m[s, l] m[s + r, l']
TwoPoint(mf, l, lp, r) ==
    Frac(SumOver([s \in Cells |-> mf[s][l] * mf[Shift(s, r)][lp]], Cells),
         NumCells * Levels * Levels)

\* f[l] = (1/S) sum_s m[s, l]
OnePoint(mf, l) ==
    Frac(SumOver([s \in Cells |-> mf[s][l]], Cells), NumCells * Levels)

\* variant of autocorrelate: the second factor is taken one bin further along
\* the second axis
autocorrelate_OffByOne(mf) ==
    [l \in States |-> [r \in Offsets |-> TwoPoint(mf, l, l, Shift(r, <<0, 1>>))]]

\* autocorrelate(X_, periodic_axes=(0, 1)): f[r | l, l] for every l and r
autocorrelate(mf) ==
    [l \in States |-> [r \in Offsets |-> TwoPoint(mf, l, l, r)]]

\* variant of crosscorrelate: the two local states are not distinct
crosscorrelate_SameState(mf) ==
    [r \in Offsets |-> TwoPoint(mf, 0, 0, r)]

\* crosscorrelate(X_, periodic_axes=(0, 1)): f[r | 0, 1] for every r
crosscorrelate(mf) ==
    [r \in Offsets |-> TwoPoint(mf, 0, 1, r)]

\* make_checkerboard_microstructure(square_size=..., n_squares=...): squares of
\* side square_size, alternately of phase 0 and phase 1; `first` is the phase
\* of the square at the origin
make_checkerboard_microstructure(square_size, first) ==
    [s \in Cells |->
        Levels * (((s[1] \div square_size) + (s[2] \div square_size) + first) % 2)]

InitStats ==
    /\ nb = "checker_board" /\ pc = "start"
    /\ FreshNames
    /\ X \in [Cells -> 0 .. Levels]
    /\ Cardinality({s \in Cells : X[s] \notin {0, Levels}}) <= MaxShared
    /\ X_ = <<>> /\ corr = NoCorr /\ X_auto = <<>>

statsFrame == <<nb, n, chVars, elastVars, estVars, datagen, regr>>

\* prim_basis = PrimitiveBasis(n_states=2); X_ = prim_basis.discretize(X)
S_Discretize ==
    /\ nb = "checker_board" /\ pc = "start"
    /\ X_' = discretize(X)
    /\ pc' = "cb_autocorrelate"
    /\ UNCHANGED <<statsFrame, X, corr, X_auto>>

\* ... = autocorrelate(X_, periodic_axes=(0, 1))
S_Autocorrelate ==
    /\ nb = "checker_board" /\ pc = "cb_autocorrelate"
    /\ corr' = [kind |-> "auto", val |-> autocorrelate(X_)]
    /\ X_auto' = autocorrelate(X_)
    /\ pc' = "cb_crosscorrelate"
    /\ UNCHANGED <<statsFrame, X, X_>>

\* ... = crosscorrelate(X_, periodic_axes=(0, 1))
S_Crosscorrelate ==
    /\ nb = "checker_board" /\ pc = "cb_crosscorrelate"
    /\ corr' = [kind |-> "cross", val |-> crosscorrelate(X_)]
    /\ pc' = "done"
    /\ UNCHANGED <<statsFrame, X, X_, X_auto>>

NextStats ==
    \/ S_Discretize
    \/ S_Autocorrelate
    \/ S_Crosscorrelate

SpecStats == InitStats /\ [][NextStats]_vars

\* the microstructure function only contains the values 0 and 1
Eigen(mf) == \A s \in Cells : \A l \in States : mf[s][l] \in {0, Levels}

\* number of cells that are entirely in state l
CellsInState(mf, l) == Cardinality({s \in Cells : mf[s][l] = Levels})

\* no cell holds a part of both phases
NoCoexistence(mf) == \A s \in Cells : ~(mf[s][0] > 0 /\ mf[s][1] > 0)

\* C9: for an eigen microstructure function, the autocorrelation of every
\* local state l at the zero vector equals the 1-point statistic of l, which
\* is the volume fraction: the number of cells in state l divided by S.
C9_ZeroVectorIsVolumeFraction ==
    (corr.kind = "auto" /\ Eigen(X_))
    => \A l \in States :
          /\ FracEq(corr.val[l][<<0, 0>>], OnePoint(X_, l))
          /\ FracEq(corr.val[l][<<0, 0>>], Frac(CellsInState(X_, l), NumCells))

\* C9 witness: the autocorrelations of an eigen microstructure holding both
\* phases, with unequal volume fractions, have been computed.
C9_Witness ==
    /\ corr.kind = "auto" /\ Eigen(X_)
    /\ CellsInState(X_, 0) > 0
    /\ CellsInState(X_, 1) > CellsInState(X_, 0)

\* C10: when no cell holds both phases, the crosscorrelation of the two
\* phases at the (0, 0) vector is 0.
C10_CrossZeroAtOrigin ==
    (corr.kind = "cross" /\ NoCoexistence(X_))
    => corr.val[<<0, 0>>].num = 0

\* C10 witness: the crosscorrelation of a microstructure holding both phases,
\* none of them sharing a cell, has been computed and is not zero everywhere.
C10_Witness ==
    /\ corr.kind = "cross" /\ NoCoexistence(X_)
    /\ CellsInState(X_, 0) > 0 /\ CellsInState(X_, 1) > 0
    /\ \E r \in Offsets : corr.val[r].num > 0

\* the microstructure is a checkerboard
IsCheckerboard(x) ==
    \E sq \in 1 .. GridRows : \E first \in States :
        x = make_checkerboard_microstructure(sq, first)

\* a + b = c for rational numbers a and b of the same denominator
FracSumEq(a, b, c) == (a.num + b.num) * c.den = c.num * a.den

\* a <= b for rational numbers of the same denominator
FracLeq(a, b) == a.num <= b.num

\* C11: for the checkerboard with periodic axes, at every vector r the
\* crosscorrelation and the autocorrelation of a phase add up to the volume
\* fraction of that phase; hence the crosscorrelation is largest exactly where
\* the autocorrelations are smallest, and smallest where they are largest.
C11_CrossOppositeOfAuto ==
    (corr.kind = "cross" /\ IsCheckerboard(X))
    => \A l \in States :
          /\ \A r \in Offsets :
                FracSumEq(corr.val[r], X_auto[l][r],
                          Frac(CellsInState(X_, l), NumCells))
          /\ \A r1, r2 \in Offsets :
                FracLeq(corr.val[r1], corr.val[r2])
                  <=> FracLeq(X_auto[l][r2], X_auto[l][r1])

\* C11 witness: both statistics of a checkerboard holding both phases have
\* been computed, and the crosscorrelation is not the same at every vector.
C11_Witness ==
    /\ corr.kind = "cross" /\ IsCheckerboard(X)
    /\ CellsInState(X_, 0) > 0 /\ CellsInState(X_, 1) > 0
    /\ \E r1, r2 \in Offsets : corr.val[r1].num < corr.val[r2].num

\* C12: in every iteration of a time-marching loop ch_sim.run is handed the
\* response of the run before it (the copy of phi0 in the first iteration) and
\* model.predict the prediction before it (the copy of phi0 in the first
\* iteration); no field the simulation produced reaches the model and no
\* prediction reaches the simulation.
C12_FedBackToItsProducer ==
    nb = "cahn_hilliard" =>
      /\ phi_sim.pred = 0 /\ response.pred = 0 /\ phi_pred.sim = 0
      /\ \A L \in {1, 2} :
           /\ pc = LoopPc(L, "run") =>
                /\ phi_sim.shape = phi0.shape /\ phi_sim.draw = phi0.draw
                /\ phi_sim.sim = ii - 1
                /\ (ii = 1 => phi_sim = phi0)
                /\ (ii > 1 => phi_sim = response)
           /\ pc = LoopPc(L, "predict") =>
                /\ phi_pred.shape = phi0.shape /\ phi_pred.draw = phi0.draw
                /\ phi_pred.pred = ii - 1
                /\ (ii = 1 => phi_pred = phi0)

\* C12 witness: the third iteration of the first loop is about to call
\* predict, on the field two predictions produced, after three runs of the
\* simulation.
C12_Witness ==
    /\ nb = "cahn_hilliard" /\ pc = "ch_loop1_predict" /\ ii = 3
    /\ phi_pred.pred = 2 /\ phi_pred.sim = 0
    /\ phi_sim.sim = 3 /\ phi_sim.pred = 0

\* C13: in the 2-phase elasticity notebook make_elastic_FE_strain_delta and
\* model.fit see size = (n, n) = (21, 21); size is (m, m) = (63, 63) only once
\* the model is fitted, and from then on the data generators are called with
\* (63, 63).
C13_SizeReboundAfterFit ==
    nb = "elasticity_2phase" =>
      /\ datagen.fn = "make_elastic_FE_strain_delta"
           => (size = <<21, 21>> /\ datagen.size = <<21, 21>> /\ n = 21)
      /\ lastCall.op = "fit"
           => (size = <<21, 21>> /\ lastCall.shape = <<21, 21>>)
      /\ pc \in {"e2_model", "e2_fit", "e2_random", "e2_predict", "e2_big"}
           => size = <<n, n>>
      /\ size = <<63, 63>> => (m = 63 /\ heap[model].fitted)
      /\ pc \in {"e2_resize", "e2_predict_big", "done"}
           => (size = <<63, 63>> /\ datagen.size = <<63, 63>>)

\* C13 witness: the notebook has run to its end: the model was fitted on
\* 21 x 21 data and the last generator call was made with size (63, 63).
C13_Witness ==
    /\ nb = "elasticity_2phase" /\ pc = "done"
    /\ heap[model].fitted /\ n = 21 /\ m = 63
    /\ size = <<63, 63>> /\ datagen.size = <<63, 63>>
    /\ datagen.fn = "make_elastic_FE_strain_random"

=============================================================================
